---- MODULE Spec2Model ----
(***************************************************************************)
(* Model of src/main.py: the three feature functions (calculate_mfcc,      *)
(* calculate_lsfm, calculate_zcr), the rule-based classifier               *)
(* (classify_audio) and the folder loop (process_audio_folder).            *)
(*                                                                         *)
(* Numbers.  Samples and spectral magnitudes are integers in units of      *)
(* 1e-10, so the code's 1e-10 is 1 and its 1e-6 is 10000.  A real-valued   *)
(* result (a feature, a threshold) is a fraction <<num, den>> with         *)
(* den > 0, compared by cross-multiplication.  The per-frame spectral      *)
(* flatness is carried in fixed point, in units of 1/Scale; roots are      *)
(* integer roots (floor).                                                  *)
(*                                                                         *)
(* Exceptions.  An operator that can raise returns a record                *)
(* [ok, val, exc]; Python's try/except is the test of ok.                  *)
(***************************************************************************)
EXTENDS Integers, Sequences, FiniteSets, TLC

VARIABLES
    called,        \* which function the caller has invoked ("idle" when none)
    audio,         \* the sample buffer passed in
    sr,            \* the sample rate passed in
    frame_length,  \* framing parameters passed in
    hop_length,
    n_mfcc,        \* n_mfcc passed to calculate_mfcc
    libMfcc,       \* what librosa.feature.mfcc does on this buffer
    result,        \* what the caller observes: a label, "value", or an exception name
    invoked,       \* the feature functions classify_audio invoked, in order
    mfcc,          \* returned / printed MFCC mean vector (<<>> when not computed)
    lsfm,          \* returned / printed LSFM (<<>> when not computed)
    zcr,           \* returned / printed ZCR (<<>> when not computed)
    listing,       \* process_audio_folder: os.listdir(folder_path)
    exists,        \* process_audio_folder: os.path.exists(folder_path)
    idx,           \* process_audio_folder: entries of the listing already handled
    log,           \* process_audio_folder: what was done with each entry, in order
    pc             \* process_audio_folder: "start", "loop" or "done"

vars == <<called, audio, sr, frame_length, hop_length, n_mfcc, libMfcc, result,
          invoked, mfcc, lsfm, zcr, listing, exists, idx, log, pc>>

apiVars == <<called, audio, sr, frame_length, hop_length, n_mfcc, libMfcc, result,
             invoked, mfcc, lsfm, zcr>>

batchVars == <<listing, exists, idx, log, pc>>

----------------------------------------------------------------------------
\* Bounds of the model.

\* longest sample buffer drawn
MaxLen == 4

\* longest directory listing drawn
MaxFiles == 2

\* fixed-point resolution of a per-frame flatness value (1.0 is Scale/Scale)
Scale == 1000

----------------------------------------------------------------------------
\* Program constants (units of 1e-10 for amplitudes).

\* 1e-10, the guard added to magnitudes and the near-zero test of a frame
EPS == 1

\* 1e-6, the silence gate of classify_audio
SILENCE_PEAK == 10000

\* default n_mfcc of calculate_mfcc
N_MFCC == 13

\* default frame_length / hop_length
DEFAULT_FRAME_LENGTH == 2048

DEFAULT_HOP_LENGTH == 512

\* classification thresholds, as fractions
LSFM_HI == <<8, 10>>

LSFM_LO == <<3, 10>>

ZCR_HI == <<3, 10>>

ZCR_LO == <<1, 10>>

ENERGY_LO == <<50, 1>>

ENERGY_HI == <<150, 1>>

\* LSFM_FALLBACK as 0.0, the fallback of calculate_zcr
LsfmFallbackZero == <<0, 1>>

\* fallback values of the feature functions
LSFM_FALLBACK == <<1, 1>>

ZCR_FALLBACK == <<0, 1>>

\* the three labels, as the code spells them
LABEL_NOISE == "Noise"

LABEL_SEMI == "Semi-Noise"

LABEL_OTHER == "None Noise"

Labels == {LABEL_NOISE, LABEL_SEMI, LABEL_OTHER}

----------------------------------------------------------------------------
\* Fractions.

FLt(a, b) == a[1] * b[2] < b[1] * a[2]

FLe(a, b) == a[1] * b[2] <= b[1] * a[2]

FEq(a, b) == a[1] * b[2] = b[1] * a[2]

Abs(x) == IF x < 0 THEN -x ELSE x

RECURSIVE SumSeq(_)
SumSeq(s) == IF s = <<>> THEN 0 ELSE Head(s) + SumSeq(Tail(s))

\* outcome of an operation that may raise
Ok(v) == [ok |-> TRUE, val |-> v, exc |-> ""]

Raise(e) == [ok |-> FALSE, val |-> <<>>, exc |-> e]

\* try: ... except Exception: return fallback
Except(r, fallback) == IF r.ok THEN r ELSE Ok(fallback)

----------------------------------------------------------------------------
\* Integer square root (floor), by bisection; arguments are below 2^31.

RECURSIVE SqrtSearch(_, _, _)
SqrtSearch(n, lo, hi) ==
    IF lo >= hi THEN lo
    ELSE LET mid == (lo + hi + 1) \div 2
         IN  IF mid * mid <= n THEN SqrtSearch(n, mid, hi)
                               ELSE SqrtSearch(n, lo, mid - 1)

ISqrt(n) == SqrtSearch(n, 0, 46340)

----------------------------------------------------------------------------
\* librosa.util.frame(x, frame_length, hop_length): complete frames only, no
\* padding.  It raises when the buffer is shorter than one frame, when
\* hop_length < 1, and (from the strided view) when frame_length < 0.

FrameRaises(n, fl, hop) == n < fl \/ hop < 1 \/ fl < 0

NumFrames(n, fl, hop) == 1 + (n - fl) \div hop

Frames(x, fl, hop) ==
    [f \in 1..NumFrames(Len(x), fl, hop) |->
        SubSeq(x, (f - 1) * hop + 1, (f - 1) * hop + fl)]

----------------------------------------------------------------------------
\* calculate_lsfm

\* np.abs(np.fft.fft(frame)), for the frame lengths a drawn buffer can fill:
\* 1, 2 and 4 (the bins of a 4-point transform are a+b+c+d, (a-c) -+ i(b-d),
\* a-b+c-d)
FftMagnitudes(frame) ==
    IF Len(frame) = 1 THEN << Abs(frame[1]) >>
    ELSE IF Len(frame) = 2
    THEN << Abs(frame[1] + frame[2]), Abs(frame[1] - frame[2]) >>
    ELSE LET re == frame[1] - frame[3]
             im == frame[2] - frame[4]
             m1 == ISqrt(re * re + im * im)
         IN  << Abs(frame[1] + frame[2] + frame[3] + frame[4]),
                m1,
                Abs(frame[1] - frame[2] + frame[3] - frame[4]),
                m1 >>

\* np.exp(np.mean(np.log(v))): the geometric mean, by repeated square roots
RECURSIVE GeoMean(_)
GeoMean(v) ==
    IF Len(v) = 1 THEN v[1]
    ELSE LET h == Len(v) \div 2
         IN  ISqrt(GeoMean(SubSeq(v, 1, h)) * GeoMean(SubSeq(v, h + 1, Len(v))))

\* np.clip(x, lo, hi)
Clip(x, lo, hi) == IF x < lo THEN lo ELSE IF x > hi THEN hi ELSE x

\* lines 21-27 on the magnitudes of one frame: the value appended, in 1/Scale
\* (gm / (am + 1e-10), with am = total / Len)
Flatness(fft_frame, total) ==
    IF total < EPS THEN Scale
    ELSE Clip((Scale * GeoMean([i \in 1..Len(fft_frame) |-> fft_frame[i] + EPS])
                     * Len(fft_frame))
                 \div (total + Len(fft_frame) * EPS), 0, Scale)

\* FrameFlatness with a near-zero frame counted as tonal (0.0) instead of 1.0
FrameFlatnessZeroAsTonal(frame) ==
    IF SumSeq(FftMagnitudes(frame)) < EPS THEN 0
    ELSE Flatness(FftMagnitudes(frame), SumSeq(FftMagnitudes(frame)))

\* the body of the loop over frames (lines 20-27)
FrameFlatness(frame) == Flatness(FftMagnitudes(frame), SumSeq(FftMagnitudes(frame)))

\* the try block of calculate_lsfm
LsfmTry(x, fl, hop) ==
    IF FrameRaises(Len(x), fl, hop) THEN Raise("ParameterError")
    ELSE IF fl = 0 THEN Raise("ValueError")   \* np.fft.fft of an empty frame
    ELSE LET frames == Frames(x, fl, hop)
             vals   == [f \in 1..Len(frames) |-> FrameFlatness(frames[f])]
         IN  Ok(IF vals = <<>> THEN LSFM_FALLBACK
                ELSE << SumSeq(vals), Scale * Len(vals) >>)

\* calculate_lsfm without its except clause
calculate_lsfm_no_except(x, fl, hop) == LsfmTry(x, fl, hop)

calculate_lsfm(x, fl, hop) == Except(LsfmTry(x, fl, hop), LSFM_FALLBACK)

----------------------------------------------------------------------------
\* calculate_zcr: librosa.feature.zero_crossing_rate with its default
\* center=True pads the buffer by frame_length // 2 on both sides with the
\* edge samples, frames the padded buffer and averages the crossings.

\* sample i (1-based) of np.pad(x, (p, p), mode="edge")
PaddedAt(x, p, i) ==
    IF i <= p THEN x[1]
    ELSE IF i > p + Len(x) THEN x[Len(x)]
    ELSE x[i - p]

\* librosa.zero_crossings: magnitudes <= 1e-10 are zeroed, zero counts as positive
Negative(y) == y < -EPS

\* crossings inside frame f of the padded buffer (pad=False: position 0 never counts)
FrameCrossings(x, p, fl, hop, f) ==
    Cardinality({i \in 2..fl :
        Negative(PaddedAt(x, p, (f - 1) * hop + i))
            # Negative(PaddedAt(x, p, (f - 1) * hop + i - 1))})

\* ZcrTry with center=False: the buffer is framed as it is
ZcrTryUncentered(x, fl, hop) ==
    IF FrameRaises(Len(x), fl, hop) THEN Raise("ParameterError")
    ELSE IF fl = 0 THEN Raise("IndexError")
    ELSE LET nf == NumFrames(Len(x), fl, hop)
             cr == [f \in 1..nf |-> FrameCrossings(x, 0, fl, hop, f)]
         IN  Ok(<< SumSeq(cr), fl * nf >>)

\* the try block of calculate_zcr
ZcrTry(x, fl, hop) ==
    LET p == fl \div 2
        n == Len(x) + 2 * p
    IN  IF p < 0 THEN Raise("ValueError")                    \* np.pad, negative width
        ELSE IF p > 0 /\ Len(x) = 0 THEN Raise("ValueError") \* np.pad, empty axis
        ELSE IF FrameRaises(n, fl, hop) THEN Raise("ParameterError")
        ELSE IF fl = 0 THEN Raise("IndexError")              \* frames of length 0
        ELSE LET nf == NumFrames(n, fl, hop)
                 cr == [f \in 1..nf |-> FrameCrossings(x, p, fl, hop, f)]
             IN  Ok(<< SumSeq(cr), fl * nf >>)

\* calculate_zcr without its except clause
calculate_zcr_no_except(x, fl, hop) == ZcrTry(x, fl, hop)

calculate_zcr(x, fl, hop) == Except(ZcrTry(x, fl, hop), ZCR_FALLBACK)

----------------------------------------------------------------------------
\* calculate_mfcc.  librosa.feature.mfcc is not computed here: what it does on
\* the buffer is an input, lib = [raises, c0s, c]: it raises, or it returns the
\* n_mfcc x Len(c0s) matrix whose first row is c0s and whose other rows
\* alternate c and -c.

LibMfccMatrix(lib, n) ==
    [i \in 1..n |-> [t \in 1..Len(lib.c0s) |->
        IF i = 1 THEN lib.c0s[t] ELSE IF i % 2 = 0 THEN lib.c ELSE -lib.c]]

\* the try block of calculate_mfcc: np.mean(mfcc, axis=1)
MfccTry(x, rate, n, lib) ==
    IF lib.raises \/ Len(x) = 0 THEN Raise("ParameterError")
    ELSE LET m == LibMfccMatrix(lib, n)
         IN  Ok([i \in 1..n |-> << SumSeq(m[i]), Len(m[i]) >>])

\* np.zeros(n)
Zeros(n) == [i \in 1..n |-> << 0, 1 >>]

calculate_mfcc(x, rate, n, lib) == Except(MfccTry(x, rate, n, lib), Zeros(n))

----------------------------------------------------------------------------
\* classify_audio

\* Peak as np.sum(np.abs(audio))
PeakAsSum(x) == SumSeq([i \in 1..Len(x) |-> Abs(x[i])])

\* np.max(np.abs(audio)), for a non-empty buffer
Peak(x) == CHOOSE m \in {Abs(x[i]) : i \in 1..Len(x)} :
               \A i \in 1..Len(x) : Abs(x[i]) <= m

\* np.mean(np.abs(mfcc)); the entries of an MFCC mean vector share one denominator
MfccEnergy(v) ==
    << SumSeq([i \in 1..Len(v) |-> Abs(v[i][1])]), v[1][2] * Len(v) >>

\* Label with rule 1 taking mfcc_energy <= 50
LabelEnergyInclusive(l, z, e) ==
    IF FLt(LSFM_HI, l) /\ FLt(ZCR_HI, z) /\ FLe(e, ENERGY_LO) THEN LABEL_NOISE
    ELSE IF /\ FLe(LSFM_LO, l) /\ FLe(l, LSFM_HI)
            /\ FLe(ZCR_LO, z) /\ FLe(z, ZCR_HI)
            /\ FLe(ENERGY_LO, e) /\ FLe(e, ENERGY_HI) THEN LABEL_SEMI
    ELSE LABEL_OTHER

\* the guard cascade of lines 61-66
Label(l, z, e) ==
    IF FLt(LSFM_HI, l) /\ FLt(ZCR_HI, z) /\ FLt(e, ENERGY_LO) THEN LABEL_NOISE
    ELSE IF /\ FLe(LSFM_LO, l) /\ FLe(l, LSFM_HI)
            /\ FLe(ZCR_LO, z) /\ FLe(z, ZCR_HI)
            /\ FLe(ENERGY_LO, e) /\ FLe(e, ENERGY_HI) THEN LABEL_SEMI
    ELSE LABEL_OTHER

\* what one call of classify_audio does: the value returned (or the exception
\* that leaves it), the feature functions invoked, and the features printed
Outcome(res, inv, m, l, z) ==
    [result |-> res, invoked |-> inv, mfcc |-> m, lsfm |-> l, zcr |-> z]

\* lines 54-66, given what the three feature calls of lines 50-52 gave; an
\* exception leaving a feature function would leave classify_audio there
Decide(m, l, z) ==
    IF ~m.ok THEN Outcome(m.exc, <<"calculate_mfcc">>, <<>>, <<>>, <<>>)
    ELSE IF ~l.ok
    THEN Outcome(l.exc, <<"calculate_mfcc", "calculate_lsfm">>, m.val, <<>>, <<>>)
    ELSE IF ~z.ok
    THEN Outcome(z.exc, <<"calculate_mfcc", "calculate_lsfm", "calculate_zcr">>,
                 m.val, l.val, <<>>)
    ELSE Outcome(Label(l.val, z.val, MfccEnergy(m.val)),
                 <<"calculate_mfcc", "calculate_lsfm", "calculate_zcr">>,
                 m.val, l.val, z.val)

classify_audio(x, rate, fl, hop, lib) ==
    IF Len(x) = 0 THEN Outcome("ValueError", <<>>, <<>>, <<>>, <<>>)   \* np.max of an empty array
    ELSE IF Peak(x) < SILENCE_PEAK THEN Outcome(LABEL_NOISE, <<>>, <<>>, <<>>, <<>>)
    ELSE Decide(calculate_mfcc(x, rate, N_MFCC, lib),
                calculate_lsfm(x, fl, hop),
                calculate_zcr(x, fl, hop))

----------------------------------------------------------------------------
\* The arguments callers pass.

\* amplitudes: 0, 3.5e-7 (below the silence gate), 1.05e-6 (above it)
Samples == {-3500, 0, 3500, 10500}

Buffers == UNION {[1..n -> Samples] : n \in 0..MaxLen}

SampleRates == {16000, 44100}

FrameLengths == {-1, 0, 1, 2, 4, 8}

HopLengths == {0, 1, 2}

NMfccChoices == {2, N_MFCC}

LibRaises == [raises |-> TRUE, c0s |-> <<>>, c |-> 0]

LibReturns == {[raises |-> FALSE, c0s |-> <<0>>, c |-> 20],
               [raises |-> FALSE, c0s |-> <<-650>>, c |-> 0],
               [raises |-> FALSE, c0s |-> <<-1000, -1600>>, c |-> 0],
               [raises |-> FALSE, c0s |-> <<-1950>>, c |-> 0],
               [raises |-> FALSE, c0s |-> <<-2600>>, c |-> 0]}

\* librosa.feature.mfcc cannot succeed on an empty buffer
LibOutcomes(x) == IF Len(x) = 0 THEN {LibRaises} ELSE LibReturns \cup {LibRaises}

----------------------------------------------------------------------------
\* Direct calls of the four functions, one at a time.

Idle ==
    /\ called = "idle"
    /\ audio = <<>>
    /\ sr = 0
    /\ frame_length = 0
    /\ hop_length = 0
    /\ n_mfcc = 0
    /\ libMfcc = LibRaises
    /\ result = ""
    /\ invoked = <<>>
    /\ mfcc = <<>>
    /\ lsfm = <<>>
    /\ zcr = <<>>

BatchIdle ==
    /\ listing = <<>>
    /\ exists = FALSE
    /\ idx = 0
    /\ log = <<>>
    /\ pc = "done"

Init == Idle /\ BatchIdle

CallClassifyAudio ==
    /\ called = "idle"
    /\ \E x \in Buffers, rate \in SampleRates, fl \in FrameLengths, hop \in HopLengths :
         \E lib \in LibOutcomes(x) :
           \E o \in {classify_audio(x, rate, fl, hop, lib)} :
               /\ called' = "classify_audio"
               /\ audio' = x
               /\ sr' = rate
               /\ frame_length' = fl
               /\ hop_length' = hop
               /\ n_mfcc' = N_MFCC
               /\ libMfcc' = lib
               /\ result' = o.result
               /\ invoked' = o.invoked
               /\ mfcc' = o.mfcc
               /\ lsfm' = o.lsfm
               /\ zcr' = o.zcr
    /\ UNCHANGED batchVars

CallCalculateMfcc ==
    /\ called = "idle"
    /\ \E x \in Buffers, rate \in SampleRates, n \in NMfccChoices :
         \E lib \in LibOutcomes(x) :
           \E r \in {calculate_mfcc(x, rate, n, lib)} :
               /\ called' = "calculate_mfcc"
               /\ audio' = x
               /\ sr' = rate
               /\ n_mfcc' = n
               /\ libMfcc' = lib
               /\ result' = IF r.ok THEN "value" ELSE r.exc
               /\ mfcc' = r.val
    /\ UNCHANGED <<frame_length, hop_length, invoked, lsfm, zcr>>
    /\ UNCHANGED batchVars

CallCalculateLsfm ==
    /\ called = "idle"
    /\ \E x \in Buffers, fl \in FrameLengths, hop \in HopLengths :
           \E r \in {calculate_lsfm(x, fl, hop)} :
               /\ called' = "calculate_lsfm"
               /\ audio' = x
               /\ frame_length' = fl
               /\ hop_length' = hop
               /\ result' = IF r.ok THEN "value" ELSE r.exc
               /\ lsfm' = r.val
    /\ UNCHANGED <<sr, n_mfcc, libMfcc, invoked, mfcc, zcr>>
    /\ UNCHANGED batchVars

CallCalculateZcr ==
    /\ called = "idle"
    /\ \E x \in Buffers, fl \in FrameLengths, hop \in HopLengths :
           \E r \in {calculate_zcr(x, fl, hop)} :
               /\ called' = "calculate_zcr"
               /\ audio' = x
               /\ frame_length' = fl
               /\ hop_length' = hop
               /\ result' = IF r.ok THEN "value" ELSE r.exc
               /\ zcr' = r.val
    /\ UNCHANGED <<sr, n_mfcc, libMfcc, invoked, mfcc, lsfm>>
    /\ UNCHANGED batchVars

\* the call has returned and its values are dropped
Return ==
    /\ called # "idle"
    /\ called' = "idle"
    /\ audio' = <<>>
    /\ sr' = 0
    /\ frame_length' = 0
    /\ hop_length' = 0
    /\ n_mfcc' = 0
    /\ libMfcc' = LibRaises
    /\ result' = ""
    /\ invoked' = <<>>
    /\ mfcc' = <<>>
    /\ lsfm' = <<>>
    /\ zcr' = <<>>
    /\ UNCHANGED batchVars

Next ==
    \/ CallClassifyAudio
    \/ CallCalculateMfcc
    \/ CallCalculateLsfm
    \/ CallCalculateZcr
    \/ Return

Spec == Init /\ [][Next]_vars

----------------------------------------------------------------------------
\* process_audio_folder.  A file name is a sequence of characters.

\* str.lower(), on the characters the names below use
LowerChar(ch) ==
    CASE ch = "W" -> "w"
      [] ch = "A" -> "a"
      [] ch = "V" -> "v"
      [] ch = "M" -> "m"
      [] ch = "P" -> "p"
      [] ch = "F" -> "f"
      [] ch = "L" -> "l"
      [] ch = "C" -> "c"
      [] OTHER    -> ch

Lower(name) == [i \in 1..Len(name) |-> LowerChar(name[i])]

\* str.endswith(suffix)
EndsWith(name, suffix) ==
    /\ Len(name) >= Len(suffix)
    /\ SubSeq(name, Len(name) - Len(suffix) + 1, Len(name)) = suffix

supported_formats ==
    { <<".", "w", "a", "v">>, <<".", "m", "p", "3">>, <<".", "f", "l", "a", "c">> }

\* the test of line 78
IsSupported(name) == \E suffix \in supported_formats : EndsWith(Lower(name), suffix)

\* what librosa.load gives for a file: it raises, or returns a buffer and its
\* rate (lib is what librosa.feature.mfcc then does on that buffer)
DecodedBuffers ==
    { [audio |-> <<>>, sr |-> 16000, lib |-> LibRaises],
      [audio |-> <<3500, -3500>>, sr |-> 16000,
       lib |-> [raises |-> FALSE, c0s |-> <<-650>>, c |-> 0]],
      [audio |-> <<10500, -3500, 3500>>, sr |-> 44100,
       lib |-> [raises |-> FALSE, c0s |-> <<0>>, c |-> 20]] }

LoadOutcomes == {Raise("LoadError")} \cup {Ok(d) : d \in DecodedBuffers}

\* classify_audio(audio, sr) of line 85, with the default framing, computed
\* once for each decodable buffer
ClassifyTable ==
    { << d, classify_audio(d.audio, d.sr, DEFAULT_FRAME_LENGTH, DEFAULT_HOP_LENGTH,
                           d.lib) >> : d \in DecodedBuffers }

ClassifyDefault(d) == (CHOOSE row \in ClassifyTable : row[1] = d)[2]

\* directory entries: a name, whether it names an audio file of a supported
\* format (by inspection of the name), and what loading it would give
AudioNames ==
    { <<"a", ".", "w", "a", "v">>, <<"a", ".", "M", "p", "3">>,
      <<"A", ".", "F", "L", "A", "C">> }

OtherNames ==
    { <<"w", "a", "v">>, <<"a", ".", "w", "a", "v", ".", "b", "k">> }

Entries ==
    [name : AudioNames, isAudio : {TRUE}, load : LoadOutcomes]
        \cup [name : OtherNames, isAudio : {FALSE},
              load : {Ok(d) : d \in DecodedBuffers}]

Listings == UNION {[1..n -> Entries] : n \in 0..MaxFiles}

BatchInit ==
    /\ Idle
    /\ listing \in Listings
    /\ exists \in BOOLEAN
    /\ exists = FALSE => listing = <<>>
    /\ idx = 0
    /\ log = <<>>
    /\ pc = "start"

\* lines 71-73
CheckFolder ==
    /\ pc = "start"
    /\ pc' = IF exists THEN "loop" ELSE "done"
    /\ UNCHANGED <<listing, exists, idx, log>>
    /\ UNCHANGED apiVars

\* lines 81-88: the try block of one supported entry, o being what
\* classify_audio does on the decoded buffer (with the default framing)
LogRecord(e, action, res) ==
    [entry |-> idx + 1, name |-> e.name, decoded |-> TRUE,
     action |-> action, result |-> res]

Classified(e, o) ==
    IF o.result \in Labels THEN LogRecord(e, "classified", o.result)
                           ELSE LogRecord(e, "failed", o.result)

HandleSupported(e) ==
    IF ~e.load.ok THEN LogRecord(e, "failed", e.load.exc)
    ELSE Classified(e, ClassifyDefault(e.load.val))

\* ProcessFile without the try/except of lines 81-88: a failure leaves the loop
ProcessFileNoTry ==
    /\ pc = "loop"
    /\ idx < Len(listing)
    /\ IsSupported(listing[idx + 1].name)
    /\ \E rec \in {HandleSupported(listing[idx + 1])} :
         /\ log' = Append(log, rec)
         /\ pc' = IF rec.action = "failed" THEN "done" ELSE pc
    /\ idx' = idx + 1
    /\ UNCHANGED <<listing, exists>>
    /\ UNCHANGED apiVars

\* one iteration of the loop over a supported entry (lines 78-88)
ProcessFile ==
    /\ pc = "loop"
    /\ idx < Len(listing)
    /\ IsSupported(listing[idx + 1].name)
    /\ \E rec \in {HandleSupported(listing[idx + 1])} : log' = Append(log, rec)
    /\ idx' = idx + 1
    /\ UNCHANGED <<listing, exists, pc>>
    /\ UNCHANGED apiVars

\* one iteration of the loop over any other entry (lines 89-90)
SkipFile ==
    /\ pc = "loop"
    /\ idx < Len(listing)
    /\ ~IsSupported(listing[idx + 1].name)
    /\ log' = Append(log, [entry |-> idx + 1, name |-> listing[idx + 1].name,
                           decoded |-> FALSE, action |-> "skipped", result |-> ""])
    /\ idx' = idx + 1
    /\ UNCHANGED <<listing, exists, pc>>
    /\ UNCHANGED apiVars

\* the listing is exhausted
EndLoop ==
    /\ pc = "loop"
    /\ idx = Len(listing)
    /\ pc' = "done"
    /\ UNCHANGED <<listing, exists, idx, log>>
    /\ UNCHANGED apiVars

BatchNext ==
    \/ CheckFolder
    \/ ProcessFile
    \/ SkipFile
    \/ EndLoop

BatchSpec == BatchInit /\ [][BatchNext]_vars

\* the loop is sequential code: while a step can be taken, one is taken
BatchLive == BatchSpec /\ WF_vars(BatchNext)

----------------------------------------------------------------------------
\* Vocabulary of the properties, stated on the inputs and the observed values.

IsSilent(x) == \A i \in 1..Len(x) : Abs(x[i]) < SILENCE_PEAK

NonSilentCall ==
    /\ called = "classify_audio"
    /\ Len(audio) > 0
    /\ ~IsSilent(audio)

InvalidFraming == frame_length <= 0 \/ hop_length <= 0

AllFeatures == <<"calculate_mfcc", "calculate_lsfm", "calculate_zcr">>

\* the two rules, on the printed features
Rule1 ==
    /\ 10 * lsfm[1] > 8 * lsfm[2]
    /\ 10 * zcr[1] > 3 * zcr[2]
    /\ MfccEnergy(mfcc)[1] < 50 * MfccEnergy(mfcc)[2]

Rule2 ==
    /\ 10 * lsfm[1] >= 3 * lsfm[2] /\ 10 * lsfm[1] <= 8 * lsfm[2]
    /\ 10 * zcr[1] >= 1 * zcr[2] /\ 10 * zcr[1] <= 3 * zcr[2]
    /\ MfccEnergy(mfcc)[1] >= 50 * MfccEnergy(mfcc)[2]
    /\ MfccEnergy(mfcc)[1] <= 150 * MfccEnergy(mfcc)[2]

----------------------------------------------------------------------------
\* C1 - Silence gate: for a non-empty buffer whose peak absolute sample is
\* below 1e-6, classify_audio returns Noise whatever the sample rate and the
\* framing parameters are, and invokes none of the feature functions.
C1_SilenceGate ==
    (called = "classify_audio" /\ Len(audio) > 0 /\ IsSilent(audio))
        => /\ result = "Noise"
           /\ invoked = <<>>
           /\ mfcc = <<>> /\ lsfm = <<>> /\ zcr = <<>>

\* a silent buffer with a non-zero sample, classified with invalid framing
C1_Witness ==
    /\ called = "classify_audio"
    /\ Len(audio) > 1 /\ IsSilent(audio)
    /\ \E i \in 1..Len(audio) : audio[i] # 0
    /\ InvalidFraming
    /\ result = "Noise"

\* C2 - Guard cascade: for a non-silent buffer the label is Noise exactly when
\* LSFM > 0.8, ZCR > 0.3 and mfcc_energy < 50; otherwise Semi-Noise exactly in
\* the inclusive band 0.3..0.8 / 0.1..0.3 / 50..150; otherwise the catch-all.
C2_GuardCascade ==
    NonSilentCall
        => /\ invoked = AllFeatures
           /\ (result = LABEL_NOISE) = Rule1
           /\ (result = LABEL_SEMI) = (~Rule1 /\ Rule2)
           /\ (result = LABEL_OTHER) = (~Rule1 /\ ~Rule2)

\* flat and busy but energetic: rule 1 fails on mfcc_energy >= 50 alone
C2_Witness ==
    /\ NonSilentCall
    /\ Len(audio) >= frame_length /\ ~InvalidFraming
    /\ 10 * lsfm[1] > 8 * lsfm[2]
    /\ 10 * zcr[1] > 3 * zcr[2]
    /\ MfccEnergy(mfcc)[1] = 50 * MfccEnergy(mfcc)[2]
    /\ result = LABEL_OTHER

\* C3 - the value returned is one of Noise, Semi-Noise, None-Noise, spelled so
C3_LabelSetAsStated ==
    (called = "classify_audio" /\ Len(audio) > 0)
        => result \in {"Noise", "Semi-Noise", "None-Noise"}

\* C4 - The feature functions never surface an exception: on an internal
\* failure calculate_lsfm returns 1.0, calculate_zcr returns 0.0 and
\* calculate_mfcc returns n_mfcc zeros, as ordinary return values.
C4_NoExceptionSurfaces ==
    /\ called = "calculate_lsfm"
         => /\ result = "value"
            /\ (Len(audio) < frame_length \/ InvalidFraming) => lsfm = <<1, 1>>
    /\ called = "calculate_zcr"
         => /\ result = "value"
            /\ (Len(audio) = 0 \/ InvalidFraming) => zcr = <<0, 1>>
    /\ called = "calculate_mfcc"
         => /\ result = "value"
            /\ Len(mfcc) = n_mfcc
            /\ (libMfcc.raises \/ Len(audio) = 0)
                 => \A i \in 1..n_mfcc : mfcc[i][1] = 0

\* librosa.feature.mfcc raised on a non-empty buffer: 13 zeros came back
C4_Witness ==
    /\ called = "calculate_mfcc"
    /\ Len(audio) > 0 /\ libMfcc.raises
    /\ n_mfcc = 13 /\ Len(mfcc) = 13
    /\ result = "value"

\* C5 as stated: with invalid framing parameters a non-silent classification
\* ends in an error instead of a label
C5_InvalidFramingRaises ==
    (NonSilentCall /\ InvalidFraming) => result \notin Labels

\* C5 as amended: with invalid framing parameters both framed features fall
\* back (LSFM 1.0, ZCR 0.0) and the catch-all label is returned; with valid
\* ones a label is returned too.  No error reaches the caller either way.
C5_InvalidFramingLabelled ==
    NonSilentCall
        => /\ result \in Labels
           /\ InvalidFraming
                => /\ result = LABEL_OTHER
                   /\ lsfm = <<1, 1>>
                   /\ zcr = <<0, 1>>
                   /\ invoked = AllFeatures

C5_Witness ==
    /\ NonSilentCall
    /\ frame_length > 0 /\ hop_length <= 0
    /\ Len(audio) >= frame_length
    /\ result = LABEL_OTHER

C7_NumFrames == 1 + (Len(audio) - frame_length) \div hop_length

C7_ZeroFrames ==
    {f \in 1..C7_NumFrames :
        \A i \in 1..frame_length : audio[(f - 1) * hop_length + i] = 0}

\* C7 - LSFM lies in [0, 1]; it is the mean over the complete frames of
\* per-frame values in [0, 1], where an all-zero frame counts exactly 1.0;
\* with no complete frame it is exactly 1.0.
C7_LsfmRange ==
    called = "calculate_lsfm"
        => /\ lsfm[1] >= 0 /\ lsfm[1] <= lsfm[2]
           /\ Len(audio) < frame_length => lsfm = <<1, 1>>
           /\ (~InvalidFraming /\ Len(audio) >= frame_length)
                => /\ lsfm[2] = Scale * C7_NumFrames
                   /\ lsfm[1] >= Scale * Cardinality(C7_ZeroFrames)
                   /\ Cardinality(C7_ZeroFrames) = C7_NumFrames => lsfm[1] = lsfm[2]

\* some frames are all zero, others are tonal: the mean is strictly inside
C7_Witness ==
    /\ called = "calculate_lsfm"
    /\ ~InvalidFraming /\ Len(audio) >= frame_length
    /\ C7_ZeroFrames # {}
    /\ Cardinality(C7_ZeroFrames) < C7_NumFrames
    /\ lsfm[1] > Scale * Cardinality(C7_ZeroFrames)
    /\ lsfm[1] < lsfm[2]

\* what has been done with the entries handled so far
C9_Handled ==
    /\ Len(log) = idx /\ idx <= Len(listing)
    /\ \A k \in 1..Len(log) :
         /\ log[k].entry = k
         /\ log[k].name = listing[k].name
         /\ listing[k].isAudio
              => /\ log[k].decoded
                 /\ (log[k].action = "classified")
                      = (listing[k].load.ok /\ Len(listing[k].load.val.audio) > 0)
                 /\ (log[k].action = "failed")
                      = ~(listing[k].load.ok /\ Len(listing[k].load.val.audio) > 0)
                 /\ log[k].action = "classified" => log[k].result \in Labels
         /\ ~listing[k].isAudio
              => ~log[k].decoded /\ log[k].action = "skipped"
    /\ (pc = "done" /\ exists) => Len(log) = Len(listing)

\* C9 - Over an existing folder every entry is handled exactly once and in
\* listing order: a supported name is decoded and classified, any other name
\* is skipped undecoded; a failure of decoding or classifying is recorded and
\* the loop goes on; the loop ends, after the last entry.
C9_BatchIsolation == []C9_Handled /\ <>(pc = "done")

\* a failed file first, a classified file after it, and the loop has ended
C9_Witness ==
    /\ pc = "done"
    /\ Len(log) >= 2
    /\ log[1].action = "failed"
    /\ log[2].action = "classified"

\* C10 - When calculate_lsfm has fallen back to 1.0 on a non-silent buffer
\* (buffer shorter than frame_length, or a failure), classify_audio calls each
\* feature function once and returns a label that is never Semi-Noise: Noise
\* exactly when ZCR > 0.3 and mfcc_energy < 50, the catch-all otherwise.
C10_FallbackIsOrdinaryInput ==
    (NonSilentCall /\ (Len(audio) < frame_length \/ InvalidFraming))
        => /\ lsfm = <<1, 1>>
           /\ invoked = AllFeatures
           /\ result \in {LABEL_NOISE, LABEL_OTHER}
           /\ (result = LABEL_NOISE)
                = (10 * zcr[1] > 3 * zcr[2]
                     /\ MfccEnergy(mfcc)[1] < 50 * MfccEnergy(mfcc)[2])
           /\ zcr = <<0, 1>> => result = LABEL_OTHER

\* LSFM fell back on a short buffer and the label is Noise
C10_Witness ==
    /\ NonSilentCall
    /\ ~InvalidFraming /\ Len(audio) < frame_length
    /\ lsfm = <<1, 1>>
    /\ result = LABEL_NOISE

====
